---- MODULE Spec2Model ----
(***************************************************************************)
(* A model of the two chord tools of midi_processors:                      *)
(*   src/chord-sets-processor.py  ChordSetsProcessor (analysis, categories, *)
(*                                catalog, listing query)                  *)
(*   src/chord-processor.py       ChordProcessor (archive ingestion)       *)
(* Each tool is a sequential pipeline; each has its own specification and  *)
(* leaves the other tools' variables untouched.                            *)
(***************************************************************************)
EXTENDS Integers, Sequences, FiniteSets, TLC

VARIABLES
    \* ---- analyze_chord_midi (one call, message by message) ----
    analyze_pc,        \* "start" | "track" | "done" | "error"
    num_tracks,        \* len(mid.tracks) of the file being analysed
    track_idx,         \* index of the track the loop is in
    track_open,        \* TRUE while the inner loop of track_idx runs
    current_time,      \* running sum of msg.time in the current track
    active_notes,      \* set of sounding pitches of the current track
    analysis,          \* the dict under construction (its three lists)
    result,            \* what analyze_chord_midi returned, or NoResult
    msg,               \* the message the last step processed, or NoMsg
    msgs_read,         \* number of messages read from the file so far
    last_note,         \* history: per pitch, kind of its last note event in this track
    elapsed            \* history: sum of the delta times read in this track

analyzeVars == <<analyze_pc, num_tracks, track_idx, track_open, current_time,
                 active_notes, analysis, result, msg, msgs_read, last_note,
                 elapsed>>

VARIABLES
    \* ---- categorize_chord_set (one call) ----
    categorize_pc,     \* "ready" | "done"
    categorize_arg,    \* the analysis dict passed in
    category,          \* the label returned

    \* ---- process_chord_sets, get_chord_sets_by_category, main --list ----
    sets_pc,           \* "idle" | "loop": position in process_chord_sets
    midi_files,        \* the files the glob of this run found, in order
    file_idx,          \* 1-based index of the file the loop is at
    catalog,           \* the catalog dict of the run
    processed_files,   \* names appended at line 183
    category_dirs,     \* category directories that exist
    copied,            \* copies shutil.copy2 made in this run, in order
    catalog_file,      \* content of chord_sets_catalog.json, NoFile if absent
    returned_catalog,  \* history: what the last completed run returned
    replaced_len,      \* history: records in the file the last save replaced
    failed,            \* history: indices of this run's files that failed
    last_op,           \* last operation that ended
    query,             \* arguments of the last listing query
    chord_sets         \* what the last listing query returned

VARIABLES
    \* ---- ChordProcessor.process_chord_zip (one call) ----
    zip_pc,            \* position in process_chord_zip
    zip_path,          \* the argument: a file name as its dot-separated parts
    archive,           \* what is stored at zip_path
    temp_dir,          \* "none" | "exists" | "removed": the extraction directory
    temp_files,        \* entries of the extraction directory, in rglob order
    file_pos,          \* 1-based position of the walk of _analyze_chord_files
    progressions,      \* local of _analyze_chord_files
    metadata,          \* local of _analyze_chord_files
    output_file,       \* <stem>_processed.json: NoOutput or [path, text]
    zip_result,        \* the dict process_chord_zip returned
    exit_path          \* history: the step at which the call ended

VARIABLES
    \* ---- ChordProcessor._is_chord_symbol (one call) ----
    symbol_pc,         \* "ready" | "done"
    text,              \* the argument, as the list of its characters
    is_chord           \* the value returned

categorizeVars == <<categorize_pc, categorize_arg, category>>

symbolVars == <<symbol_pc, text, is_chord>>

zipVars == <<zip_pc, zip_path, archive, temp_dir, temp_files, file_pos,
             progressions, metadata, output_file, zip_result, exit_path>>

setsVars == <<sets_pc, midi_files, file_idx, catalog, processed_files,
              category_dirs, copied, catalog_file, returned_catalog,
              replaced_len, failed, last_op, query, chord_sets>>

vars == <<analyzeVars, categorizeVars, setsVars, zipVars, symbolVars>>

-----------------------------------------------------------------------------
(* Bounds of the explored inputs *)

MaxMsgs == 4      \* messages in one MIDI file, all tracks together
MaxTracks == 2    \* tracks in one MIDI file

Pitches == {60, 64, 67, 72}
Velocities == {0, 64}
Deltas == {0, 480}
Tempos == {0, 500000}     \* microseconds per beat; 0 is encodable in a file
Keys == {"Am"}

NoteMsgs ==
    [type : {"note_on"}, note : Pitches, velocity : Velocities, time : Deltas]
    \cup [type : {"note_off"}, note : Pitches, velocity : {64}, time : Deltas]
MetaMsgs ==
    [type : {"set_tempo"}, tempo : Tempos, time : {0}]
    \cup [type : {"key_signature"}, key : Keys, time : {0}]
Messages == NoteMsgs \cup MetaMsgs

MaxTempo == 150       \* estimated_tempo values passed to categorize_chord_set
MaxChordCount == 10   \* chord_count values passed to categorize_chord_set
MaxFiles == 2         \* MIDI files in the source directory
MaxEntries == 3       \* entries of an uploaded archive
MaxTokenLen == 3      \* characters of a token built from Chars

NoMsg == [type |-> "none"]
NoResult == [status |-> "none"]

-----------------------------------------------------------------------------
(* analyze_chord_midi *)

\* sorted(list(active_notes)): ascending list of the elements of S
RECURSIVE SortedList(_)
SortedList(S) ==
    IF S = {} THEN <<>>
    ELSE LET lo == CHOOSE x \in S : \A y \in S : x <= y
         IN  <<lo>> \o SortedList(S \ {lo})

\* line 45: msg.type == 'note_on' and msg.velocity > 0
IsNoteOn(m) == m.type = "note_on" /\ m.velocity > 0

IsNoteOffTypeOnly(m) == m.type = "note_off"

\* line 57: msg.type == 'note_off' or (msg.type == 'note_on' and msg.velocity == 0)
IsNoteOff(m) == m.type = "note_off" \/ (m.type = "note_on" /\ m.velocity = 0)

ChordDetectedExactlyThree(notes) == Cardinality(notes) = 3
ChordDetectedAtTwo(notes) == Cardinality(notes) >= 2

\* line 49: len(active_notes) >= 3
ChordDetected(notes) == Cardinality(notes) >= 3

\* lines 51-55: the Chord Event appended for the active set `notes`
ChordEvent(time, notes, track) ==
    [time |-> time, notes |-> SortedList(notes), track |-> track]

\* mido.tempo2bpm(tempo) = 60000000 / tempo, raising ZeroDivisionError at 0;
\* the tempos explored divide 60000000, so round(bpm, 2) is the quotient.
TempoRaises(m) == m.type = "set_tempo" /\ m.tempo = 0
tempo2bpm(tempo) == 60000000 \div tempo

\* lines 87-91
estimate_tempo(a) ==
    IF a.tempo_changes # <<>> THEN a.tempo_changes[1].bpm ELSE 120

\* lines 93-97
estimate_key(a) ==
    IF a.key_signatures # <<>> THEN a.key_signatures[1].key ELSE "C"

\* lines 80-85: the error record
ErrorRecord == [status |-> "error", error |-> "exception"]

\* lines 26-35: the dict before the track loop
EmptyAnalysis ==
    [chord_progression |-> <<>>, key_signatures |-> <<>>, tempo_changes |-> <<>>]

\* history: the kind of a note message, for last_note
NoteKind(m) == IF m.type = "note_on" /\ m.velocity > 0 THEN "on" ELSE "off"
NoLastNote == [p \in Pitches |-> "none"]

InitAnalyze ==
    /\ analyze_pc = "start"
    /\ num_tracks = 0
    /\ track_idx = 0
    /\ track_open = FALSE
    /\ current_time = 0
    /\ active_notes = {}
    /\ analysis = EmptyAnalysis
    /\ result = NoResult
    /\ msg = NoMsg
    /\ msgs_read = 0
    /\ last_note = NoLastNote
    /\ elapsed = 0

\* line 24: mido.MidiFile(midi_path) parses a file of n tracks (lines 26-35)
OpenMidi ==
    /\ analyze_pc = "start"
    /\ \E n \in 0..MaxTracks :
         /\ num_tracks' = n
         /\ analyze_pc' = "track"
    /\ analysis' = EmptyAnalysis
    /\ UNCHANGED <<track_idx, track_open, current_time, active_notes, result,
                   msg, msgs_read, last_note, elapsed>>

\* lines 24-28 raise (unreadable file, mid.length of a type-2 file): lines 80-85
OpenMidiFails ==
    /\ analyze_pc = "start"
    /\ analyze_pc' = "error"
    /\ result' = ErrorRecord
    /\ UNCHANGED <<num_tracks, track_idx, track_open, current_time,
                   active_notes, analysis, msg, msgs_read, last_note, elapsed>>

\* lines 38-40: enter the next track
EnterTrack ==
    /\ analyze_pc = "track"
    /\ ~track_open
    /\ track_idx < num_tracks
    /\ track_open' = TRUE
    /\ current_time' = 0
    /\ active_notes' = {}
    /\ last_note' = NoLastNote
    /\ elapsed' = 0
    /\ msg' = NoMsg
    /\ UNCHANGED <<analyze_pc, num_tracks, track_idx, analysis, result, msgs_read>>

\* lines 42-71: one iteration of the message loop
ProcessMsg(m) ==
    /\ analyze_pc = "track"
    /\ track_open
    /\ msgs_read < MaxMsgs
    /\ msgs_read' = msgs_read + 1
    /\ msg' = m
    /\ current_time' = current_time + m.time
    /\ elapsed' = elapsed + m.time
    /\ last_note' = IF m \in NoteMsgs
                    THEN [last_note EXCEPT ![m.note] = NoteKind(m)]
                    ELSE last_note
    /\ IF IsNoteOn(m) THEN
            /\ active_notes' = active_notes \cup {m.note}
            /\ analysis' =
                 IF ChordDetected(active_notes')
                 THEN [analysis EXCEPT !.chord_progression =
                          Append(@, ChordEvent(current_time', active_notes', track_idx))]
                 ELSE analysis
            /\ UNCHANGED <<analyze_pc, result>>
       ELSE IF IsNoteOff(m) THEN
            /\ active_notes' = active_notes \ {m.note}
            /\ UNCHANGED <<analysis, analyze_pc, result>>
       ELSE IF m.type = "set_tempo" THEN
            IF TempoRaises(m)
            THEN /\ analyze_pc' = "error"
                 /\ result' = ErrorRecord
                 /\ UNCHANGED <<active_notes, analysis>>
            ELSE /\ analysis' = [analysis EXCEPT !.tempo_changes =
                       Append(@, [time |-> current_time', bpm |-> tempo2bpm(m.tempo)])]
                 /\ UNCHANGED <<active_notes, analyze_pc, result>>
       ELSE IF m.type = "key_signature" THEN
            /\ analysis' = [analysis EXCEPT !.key_signatures =
                  Append(@, [time |-> current_time', key |-> m.key])]
            /\ UNCHANGED <<active_notes, analyze_pc, result>>
       ELSE UNCHANGED <<active_notes, analysis, analyze_pc, result>>
    /\ UNCHANGED <<num_tracks, track_idx, track_open>>

\* line 42: the track's messages are exhausted; line 38 moves to the next track
EndTrack ==
    /\ analyze_pc = "track"
    /\ track_open
    /\ track_open' = FALSE
    /\ track_idx' = track_idx + 1
    /\ UNCHANGED <<analyze_pc, num_tracks, current_time, active_notes, analysis,
                   result, msg, msgs_read, last_note, elapsed>>

\* lines 73-78: all tracks done
FinishAnalysis ==
    /\ analyze_pc = "track"
    /\ ~track_open
    /\ track_idx = num_tracks
    /\ analyze_pc' = "done"
    /\ result' = [status |-> "ok",
                  chord_progression |-> analysis.chord_progression,
                  tempo_changes |-> analysis.tempo_changes,
                  key_signatures |-> analysis.key_signatures,
                  num_tracks |-> num_tracks,
                  estimated_tempo |-> estimate_tempo(analysis),
                  estimated_key |-> estimate_key(analysis),
                  chord_count |-> Len(analysis.chord_progression)]
    /\ UNCHANGED <<num_tracks, track_idx, track_open, current_time,
                   active_notes, analysis, msg, msgs_read, last_note, elapsed>>

NextAnalyze ==
    \/ OpenMidi /\ UNCHANGED <<categorizeVars, setsVars, zipVars, symbolVars>>
    \/ OpenMidiFails /\ UNCHANGED <<categorizeVars, setsVars, zipVars, symbolVars>>
    \/ EnterTrack /\ UNCHANGED <<categorizeVars, setsVars, zipVars, symbolVars>>
    \/ \E m \in Messages : ProcessMsg(m) /\ UNCHANGED <<categorizeVars, setsVars, zipVars, symbolVars>>
    \/ EndTrack /\ UNCHANGED <<categorizeVars, setsVars, zipVars, symbolVars>>
    \/ FinishAnalysis /\ UNCHANGED <<categorizeVars, setsVars, zipVars, symbolVars>>


-----------------------------------------------------------------------------
(* categorize_chord_set *)

\* analysis.get(key, default)
Get(d, key, default) == IF key \in DOMAIN d THEN d[key] ELSE default

\* line 118: f"{category}/{subcategory}", as the list of its three parts
Label(tempo_bucket, chord_bucket) == <<tempo_bucket, "/", chord_bucket>>

categorize_chord_set_inclusive(a) ==
    LET chord_count == Get(a, "chord_count", 0)
        tempo == Get(a, "estimated_tempo", 120)
    IN  Label(IF tempo <= 80 THEN "slow-progressions"
              ELSE IF tempo >= 140 THEN "fast-progressions"
              ELSE "medium-progressions",
              IF chord_count >= 8 THEN "complex"
              ELSE IF chord_count >= 4 THEN "standard"
              ELSE "simple")

\* lines 99-118
categorize_chord_set(a) ==
    LET chord_count == Get(a, "chord_count", 0)
        tempo == Get(a, "estimated_tempo", 120)
    IN  Label(IF tempo < 80 THEN "slow-progressions"
              ELSE IF tempo > 140 THEN "fast-progressions"
              ELSE "medium-progressions",
              IF chord_count > 8 THEN "complex"
              ELSE IF chord_count > 4 THEN "standard"
              ELSE "simple")

\* lines 126-136
categories ==
    << <<"slow-progressions", "/", "simple">>,
       <<"slow-progressions", "/", "standard">>,
       <<"slow-progressions", "/", "complex">>,
       <<"medium-progressions", "/", "simple">>,
       <<"medium-progressions", "/", "standard">>,
       <<"medium-progressions", "/", "complex">>,
       <<"fast-progressions", "/", "simple">>,
       <<"fast-progressions", "/", "standard">>,
       <<"fast-progressions", "/", "complex">> >>

\* the analysis dicts explored: both keys, or one or both missing
CategorizeArgs ==
    [estimated_tempo : 0..MaxTempo, chord_count : 0..MaxChordCount]
    \cup [estimated_tempo : 0..MaxTempo]
    \cup [chord_count : 0..MaxChordCount]
    \cup {[filename |-> "a.mid"]}

InitCategorize ==
    /\ categorize_pc = "ready"
    /\ categorize_arg = [filename |-> "a.mid"]
    /\ category = <<>>

\* lines 99-118: one call
Categorize(a) ==
    /\ categorize_pc = "ready"
    /\ categorize_pc' = "done"
    /\ categorize_arg' = a
    /\ category' = categorize_chord_set(a)

NextCategorize ==
    \E a \in CategorizeArgs : Categorize(a) /\ UNCHANGED <<analyzeVars, setsVars, zipVars, symbolVars>>

-----------------------------------------------------------------------------
(* process_chord_sets *)

\* What analyze_chord_midi extracts from a file, for the files explored: an
\* unreadable file, and readable ones by their set_tempo values and number
\* of Chord Events.
SourceFiles ==
    { [readable |-> FALSE, tempo_changes |-> <<>>, chord_count |-> 0],
      [readable |-> TRUE, tempo_changes |-> <<>>, chord_count |-> 3],
      [readable |-> TRUE,
       tempo_changes |-> <<[time |-> 0, bpm |-> 141], [time |-> 480, bpm |-> 80]>>,
       chord_count |-> 9] }

\* line 142: the names the two globs yield, by position
FileNames == <<"a.mid", "b.mid", "c.midi", "d.midi">>

SourceDirs == UNION {[1..n -> SourceFiles] : n \in 0..MaxFiles}

\* lines 21-85, on a file of SourceFiles: the keys of the analysis dict that
\* the categorizer and the listing read, and the list they derive from
AnalyzeFile(f, name) ==
    IF f.readable
    THEN [filename |-> name,
          tempo_changes |-> f.tempo_changes,
          estimated_tempo |-> estimate_tempo(f),
          chord_count |-> f.chord_count]
    ELSE [filename |-> name, error |-> "exception", status |-> "error"]

\* lines 145-150
NewCatalog(n) ==
    [processed_at |-> "cwd", total_files |-> n, chord_sets |-> <<>>,
     categories |-> <<>>]

\* lines 169-174
ChordSetInfo(name, cat, a) ==
    [original_path |-> name,
     storage_path |-> [dir |-> cat, name |-> name],
     category |-> cat,
     analysis |-> a]

\* lines 179-181: catalog["categories"], a dict in insertion order
AddToCategory(cats, cat, info) ==
    IF \E i \in 1..Len(cats) : cats[i][1] = cat
    THEN [i \in 1..Len(cats) |->
            IF cats[i][1] = cat
            THEN <<cat, Append(cats[i][2], info)>>
            ELSE cats[i]]
    ELSE Append(cats, <<cat, <<info>>>>)

(* json.dump and json.load of the catalog: a dict is written as the list of
   its members <<key, value>> in insertion order and read back by key. *)
Member(doc, key) == doc[CHOOSE i \in 1..Len(doc) : doc[i][1] = key][2]

DumpAnalysis(a) ==
    << <<"filename", a.filename>>,
       <<"tempo_changes", a.tempo_changes>>,
       <<"estimated_tempo", a.estimated_tempo>>,
       <<"chord_count", a.chord_count>> >>

LoadAnalysis(doc) ==
    [filename |-> Member(doc, "filename"),
     tempo_changes |-> Member(doc, "tempo_changes"),
     estimated_tempo |-> Member(doc, "estimated_tempo"),
     chord_count |-> Member(doc, "chord_count")]

DumpInfo(cs) ==
    << <<"original_path", cs.original_path>>,
       <<"storage_path", cs.storage_path>>,
       <<"category", cs.category>>,
       <<"analysis", DumpAnalysis(cs.analysis)>> >>

LoadInfo(doc) ==
    [original_path |-> Member(doc, "original_path"),
     storage_path |-> Member(doc, "storage_path"),
     category |-> Member(doc, "category"),
     analysis |-> LoadAnalysis(Member(doc, "analysis"))]

DumpList(l) == [i \in 1..Len(l) |-> DumpInfo(l[i])]
LoadList(l) == [i \in 1..Len(l) |-> LoadInfo(l[i])]

\* line 190
JsonDump(c) ==
    << <<"processed_at", c.processed_at>>,
       <<"total_files", c.total_files>>,
       <<"chord_sets", DumpList(c.chord_sets)>>,
       <<"categories",
         [i \in 1..Len(c.categories) |->
            <<c.categories[i][1], DumpList(c.categories[i][2])>>]>> >>

\* line 205
JsonLoad(doc) ==
    LET cats == Member(doc, "categories")
    IN  [processed_at |-> Member(doc, "processed_at"),
         total_files |-> Member(doc, "total_files"),
         chord_sets |-> LoadList(Member(doc, "chord_sets")),
         categories |->
            [i \in 1..Len(cats) |-> <<cats[i][1], LoadList(cats[i][2])>>]]

NoFile == <<>>

WriteFileAppending(old, doc) ==
    IF old = NoFile THEN doc
    ELSE JsonDump([processed_at |-> Member(doc, "processed_at"),
                   total_files |-> Member(doc, "total_files"),
                   chord_sets |-> LoadList(Member(old, "chord_sets"))
                                     \o LoadList(Member(doc, "chord_sets")),
                   categories |-> JsonLoad(doc).categories])

\* line 189: open(catalog_path, 'w') replaces what the file held
WriteFile(old, doc) == doc

InitSets ==
    /\ sets_pc = "idle"
    /\ midi_files = <<>>
    /\ file_idx = 1
    /\ catalog = NewCatalog(0)
    /\ processed_files = <<>>
    /\ category_dirs = {}
    /\ copied = <<>>
    /\ catalog_file = NoFile
    /\ returned_catalog = NewCatalog(0)
    /\ replaced_len = -1
    /\ failed = {}
    /\ last_op = "none"
    /\ query = <<>>
    /\ chord_sets = <<>>

\* lines 120-152: directories made, files found, empty catalog
StartProcess(files) ==
    /\ sets_pc = "idle"
    /\ sets_pc' = "loop"
    /\ category_dirs' = category_dirs \cup {categories[i] : i \in 1..Len(categories)}
    /\ midi_files' = files
    /\ file_idx' = 1
    /\ catalog' = NewCatalog(Len(files))
    /\ processed_files' = <<>>
    /\ copied' = <<>>
    /\ failed' = {}
    /\ last_op' = "none"
    /\ query' = <<>>
    /\ chord_sets' = <<>>
    /\ UNCHANGED <<catalog_file, returned_catalog, replaced_len>>

\* lines 154-185: one iteration of the loop over midi_files; copy_ok is
\* whether shutil.copy2 (line 166) succeeds, and its exception is not caught
ProcessFile(copy_ok) ==
    /\ sets_pc = "loop"
    /\ file_idx <= Len(midi_files)
    /\ LET name == FileNames[file_idx]
           a == AnalyzeFile(midi_files[file_idx], name)
           cat == categorize_chord_set(a)
           info == ChordSetInfo(name, cat, a)
       IN  IF "error" \notin DOMAIN a
           THEN IF copy_ok
                THEN /\ copied' = Append(copied, [src |-> name,
                                                  dst |-> [dir |-> cat, name |-> name]])
                     /\ catalog' = [catalog EXCEPT
                           !.chord_sets = Append(@, info),
                           !.categories = AddToCategory(@, cat, info)]
                     /\ processed_files' = Append(processed_files, name)
                     /\ file_idx' = file_idx + 1
                     /\ UNCHANGED <<sets_pc, failed, last_op>>
                ELSE /\ sets_pc' = "idle"
                     /\ last_op' = "process_raised"
                     /\ failed' = failed \cup {file_idx}
                     /\ UNCHANGED <<copied, catalog, processed_files, file_idx>>
           ELSE /\ copy_ok
                /\ file_idx' = file_idx + 1
                /\ failed' = failed \cup {file_idx}
                /\ UNCHANGED <<copied, catalog, processed_files, sets_pc, last_op>>
    /\ UNCHANGED <<midi_files, category_dirs, catalog_file, returned_catalog,
                   replaced_len, query, chord_sets>>

\* lines 187-195: the catalog is saved and returned
SaveCatalog ==
    /\ sets_pc = "loop"
    /\ file_idx > Len(midi_files)
    /\ catalog_file' = WriteFile(catalog_file, JsonDump(catalog))
    /\ replaced_len' = IF catalog_file = NoFile THEN -1
                       ELSE Len(Member(catalog_file, "chord_sets"))
    /\ returned_catalog' = catalog
    /\ sets_pc' = "idle"
    /\ last_op' = "process"
    /\ UNCHANGED <<midi_files, file_idx, catalog, processed_files, category_dirs,
                   copied, failed, query, chord_sets>>

-----------------------------------------------------------------------------
(* get_chord_sets_by_category and main --list *)

\* `category in cs.get("category", "")` on labels and arguments made of
\* whole parts of a label
IsSubstring(a, b) ==
    \E k \in 0..(Len(b) - Len(a)) : SubSeq(b, k + 1, k + Len(a)) = a

\* lines 212-217, the test of the comprehension
InTempoRange(cs, tempo_range) ==
    /\ tempo_range[1] <= Get(Get(cs, "analysis", <<>>), "estimated_tempo", 120)
    /\ Get(Get(cs, "analysis", <<>>), "estimated_tempo", 120) <= tempo_range[2]

\* lines 197-219; None is <<>>
get_chord_sets_by_category(cat, tempo_range) ==
    IF catalog_file = NoFile THEN <<>>
    ELSE LET loaded == JsonLoad(catalog_file)
             all == Get(loaded, "chord_sets", <<>>)
             by_category ==
                 IF cat # <<>>
                 THEN SelectSeq(all, LAMBDA cs : IsSubstring(cat, Get(cs, "category", <<>>)))
                 ELSE all
         IN  IF tempo_range # <<>>
             THEN SelectSeq(by_category, LAMBDA cs : InTempoRange(cs, tempo_range))
             ELSE by_category

\* lines 247-249: `if args.tempo_min and args.tempo_max`; an argument is <<>>
\* when not given and <<n>> when given
Truthy(arg) == arg # <<>> /\ arg[1] # 0
MainTempoRange(tempo_min, tempo_max) ==
    IF Truthy(tempo_min) /\ Truthy(tempo_max)
    THEN <<tempo_min[1], tempo_max[1]>>
    ELSE <<>>

CategoryArgs == { <<>>, <<"medium-progressions">> }
TempoValues == {0, 120}
TempoArgs == {<<>>} \cup {<<n>> : n \in TempoValues}
TempoRanges == {<<>>} \cup {<<n, m>> : n \in TempoValues, m \in TempoValues}

\* the locals of an ended run of process_chord_sets are gone once another
\* operation is called
RunLocalsGone ==
    /\ midi_files' = <<>>
    /\ file_idx' = 1
    /\ catalog' = NewCatalog(0)
    /\ processed_files' = <<>>
    /\ copied' = <<>>
    /\ failed' = {}

\* a direct call of get_chord_sets_by_category
QueryCall(cat, tempo_range) ==
    /\ sets_pc = "idle"
    /\ query' = [category |-> cat, tempo_min |-> <<>>, tempo_max |-> <<>>,
                 tempo_range |-> tempo_range]
    /\ chord_sets' = get_chord_sets_by_category(cat, tempo_range)
    /\ last_op' = "query"
    /\ RunLocalsGone
    /\ UNCHANGED <<sets_pc, category_dirs, catalog_file, returned_catalog,
                   replaced_len>>

\* lines 246-254: main with --list
MainList(cat, tempo_min, tempo_max) ==
    /\ sets_pc = "idle"
    /\ query' = [category |-> cat, tempo_min |-> tempo_min, tempo_max |-> tempo_max,
                 tempo_range |-> MainTempoRange(tempo_min, tempo_max)]
    /\ chord_sets' = get_chord_sets_by_category(cat, MainTempoRange(tempo_min, tempo_max))
    /\ last_op' = "list"
    /\ RunLocalsGone
    /\ UNCHANGED <<sets_pc, category_dirs, catalog_file, returned_catalog,
                   replaced_len>>

NextSets ==
    \/ /\ sets_pc = "idle"
       /\ \E files \in SourceDirs :
             StartProcess(files) /\ UNCHANGED <<analyzeVars, categorizeVars, zipVars, symbolVars>>
    \/ \E copy_ok \in BOOLEAN :
          ProcessFile(copy_ok) /\ UNCHANGED <<analyzeVars, categorizeVars, zipVars, symbolVars>>
    \/ SaveCatalog /\ UNCHANGED <<analyzeVars, categorizeVars, zipVars, symbolVars>>
    \/ \E cat \in CategoryArgs, tempo_range \in TempoRanges :
          QueryCall(cat, tempo_range) /\ UNCHANGED <<analyzeVars, categorizeVars, zipVars, symbolVars>>
    \/ \E cat \in CategoryArgs, tempo_min \in TempoArgs, tempo_max \in TempoArgs :
          MainList(cat, tempo_min, tempo_max)
             /\ UNCHANGED <<analyzeVars, categorizeVars, zipVars, symbolVars>>

-----------------------------------------------------------------------------
(* ChordProcessor.process_chord_zip and _analyze_chord_files *)

\* line 19
chord_sets_dir == "./storage/midi/chord-sets"

\* A file name is the list of its parts, each suffix with its dot:
\* "my.set.zip" is <<"my", ".set", ".zip">>.
ZipPaths == { <<"jazz", ".zip">>, <<"my", ".set", ".zip">>, <<"archive">> }

\* line 34: Path(zip_path).stem, the name without its last suffix
Stem(name) == IF Len(name) > 1 THEN SubSeq(name, 1, Len(name) - 1) ELSE name

\* line 35: self.chord_sets_dir / f"{chord_set_name}_processed.json"
OutputPath(chord_set_name) ==
    [dir |-> chord_sets_dir, name |-> Append(chord_set_name, "_processed.json")]

\* The entries an archive may hold: regular files and directories by suffix,
\* `ok` telling whether the leaf processor of the suffix reads the file
\* without an exception.
ArchiveEntries ==
    { [suffix |-> ".mid",   is_file |-> TRUE,  ok |-> TRUE],
      [suffix |-> ".MIDI",  is_file |-> TRUE,  ok |-> FALSE],
      [suffix |-> ".MIDI",  is_file |-> TRUE,  ok |-> TRUE],
      [suffix |-> ".txt",   is_file |-> TRUE,  ok |-> TRUE],
      [suffix |-> ".chord", is_file |-> TRUE,  ok |-> TRUE],
      [suffix |-> ".json",  is_file |-> TRUE,  ok |-> TRUE],
      [suffix |-> ".json",  is_file |-> TRUE,  ok |-> FALSE],
      [suffix |-> ".png",   is_file |-> TRUE,  ok |-> TRUE],
      [suffix |-> ".mid",   is_file |-> FALSE, ok |-> TRUE] }

EntryLists == UNION {[1..n -> ArchiveEntries] : n \in 0..MaxEntries}

Archives ==
    {[is_zip |-> FALSE, extract_ok |-> FALSE, files |-> <<>>]}
    \cup [is_zip : {TRUE}, extract_ok : BOOLEAN, files : EntryLists]

\* file_path.name of the i-th entry of the walk
EntryName(i, entry) == <<i, entry.suffix>>

LowerOmitted(suffix) == suffix

\* file_path.suffix.lower()
Lower(suffix) ==
    CASE suffix = ".MIDI" -> ".midi"
      [] suffix = ".MID" -> ".mid"
      [] OTHER -> suffix

\* lines 64, 70, 76: the branch a lower-cased suffix takes
FormatFor(suffix) ==
    IF suffix \in {".mid", ".midi"} THEN "MIDI"
    ELSE IF suffix \in {".txt", ".chord"} THEN "Text"
    ELSE IF suffix = ".json" THEN "JSON"
    ELSE "none"

\* lines 87-173: a leaf processor returns its dict, or None (here <<>>) after
\* catching the exception of a file it cannot read
LeafProcessor(name, entry, format) ==
    IF entry.ok THEN <<[filename |-> name, type |-> format]>> ELSE <<>>

\* line 38: json.dump(chord_data, f), a dict as its members in order
DumpChordData(progs, meta) ==
    << <<"progressions", progs>>,
       <<"metadata", << <<"file_count", meta.file_count>>,
                        <<"formats", meta.formats>> >> >> >>

ExceptCatchesBadZipOnly(exc) == exc = "BadZipFile"

\* line 48: `except Exception` catches every failure raised in the body
ExceptCatches(exc) ==
    exc \in {"BadZipFile", "FileNotFoundError", "OSError", "TypeError"}

TempDirKept(state) == state

\* line 27: leaving `with tempfile.TemporaryDirectory()` removes the directory
TempDirAfterExit(state) == IF state = "exists" THEN "removed" ELSE state

NoOutput == <<>>
NoZipResult == [success |-> FALSE, error |-> "none"]
NewMetadata == [file_count |-> 0, formats |-> <<>>]

InitZip ==
    /\ zip_pc = "idle"
    /\ zip_path = <<>>
    /\ archive = [is_zip |-> FALSE, extract_ok |-> FALSE, files |-> <<>>]
    /\ temp_dir = "none"
    /\ temp_files = <<>>
    /\ file_pos = 1
    /\ progressions = <<>>
    /\ metadata = NewMetadata
    /\ output_file = NoOutput
    /\ zip_result = NoZipResult
    /\ exit_path = "none"

\* lines 48-52 after an exception `exc` raised at `step`: the with blocks
\* are left first, then the handler returns the failure dict
Raise(exc, step) ==
    /\ temp_dir' = TempDirAfterExit(temp_dir)
    /\ temp_files' = IF temp_dir' = "exists" THEN temp_files ELSE <<>>
    /\ exit_path' = step
    /\ IF ExceptCatches(exc)
       THEN /\ zip_pc' = "returned"
            /\ zip_result' = [success |-> FALSE, error |-> exc]
       ELSE /\ zip_pc' = "propagated"
            /\ zip_result' = zip_result

\* line 22: the call
CallProcessChordZip(path, arch) ==
    /\ zip_pc = "idle"
    /\ zip_pc' = "called"
    /\ zip_path' = path
    /\ archive' = arch
    /\ UNCHANGED <<temp_dir, temp_files, file_pos, progressions, metadata,
                   output_file, zip_result, exit_path>>

\* line 25: zipfile.ZipFile(zip_path, 'r')
OpenZip ==
    /\ zip_pc = "called"
    /\ IF archive.is_zip
       THEN /\ zip_pc' = "opened"
            /\ UNCHANGED <<temp_dir, temp_files, zip_result, exit_path>>
       ELSE \E exc \in {"BadZipFile", "FileNotFoundError"} : Raise(exc, "open")
    /\ UNCHANGED <<zip_path, archive, file_pos, progressions, metadata, output_file>>

\* line 27: tempfile.TemporaryDirectory() entered
MakeTempDir ==
    /\ zip_pc = "opened"
    /\ zip_pc' = "tempdir"
    /\ temp_dir' = "exists"
    /\ UNCHANGED <<zip_path, archive, temp_files, file_pos, progressions,
                   metadata, output_file, zip_result, exit_path>>

\* line 28: zip_ref.extractall(temp_dir); lines 56-57 start the analysis
ExtractAll ==
    /\ zip_pc = "tempdir"
    /\ IF archive.extract_ok
       THEN /\ zip_pc' = "analyzing"
            /\ temp_files' = archive.files
            /\ UNCHANGED <<temp_dir, zip_result, exit_path>>
       ELSE \E exc \in {"BadZipFile", "OSError"} : Raise(exc, "extract")
    /\ file_pos' = 1
    /\ progressions' = <<>>
    /\ metadata' = NewMetadata
    /\ UNCHANGED <<zip_path, archive, output_file>>

\* lines 59-80: one entry of Path(directory).rglob("*")
AnalyzeEntry ==
    /\ zip_pc = "analyzing"
    /\ file_pos <= Len(temp_files)
    /\ LET entry == temp_files[file_pos]
           format == FormatFor(Lower(entry.suffix))
           prog_data == LeafProcessor(EntryName(file_pos, entry), entry, format)
       IN  IF entry.is_file
           THEN IF format # "none" /\ prog_data # <<>>
                THEN /\ progressions' = Append(progressions, prog_data[1])
                     /\ metadata' = [file_count |-> metadata.file_count + 1,
                                     formats |-> Append(metadata.formats, format)]
                ELSE /\ progressions' = progressions
                     /\ metadata' = [metadata EXCEPT !.file_count = @ + 1]
           ELSE UNCHANGED <<progressions, metadata>>
    /\ file_pos' = file_pos + 1
    /\ UNCHANGED <<zip_pc, zip_path, archive, temp_dir, temp_files, output_file,
                   zip_result, exit_path>>

\* lines 59-60: the walk itself raises (an entry that cannot be examined)
AnalyzeRaises ==
    /\ zip_pc = "analyzing"
    /\ file_pos <= Len(temp_files)
    /\ Raise("OSError", "analysis")
    /\ UNCHANGED <<zip_path, archive, file_pos, progressions, metadata, output_file>>

\* lines 82-85 and 34-38: chord_data returned and written to the output file
WriteOutput(write_ok) ==
    /\ zip_pc = "analyzing"
    /\ file_pos > Len(temp_files)
    /\ IF write_ok
       THEN /\ output_file' = [path |-> OutputPath(Stem(zip_path)),
                               text |-> DumpChordData(progressions, metadata)]
            /\ zip_pc' = "written"
            /\ UNCHANGED <<temp_dir, temp_files, zip_result, exit_path>>
       ELSE /\ Raise("OSError", "write")
            /\ UNCHANGED output_file
    /\ UNCHANGED <<zip_path, archive, file_pos, progressions, metadata>>

\* lines 40-46: the success dict is returned and the with blocks are left
ReturnSuccess ==
    /\ zip_pc = "written"
    /\ zip_pc' = "returned"
    /\ zip_result' = [success |-> TRUE,
                      chord_set_name |-> Stem(zip_path),
                      output_path |-> OutputPath(Stem(zip_path)),
                      chord_count |-> Len(progressions),
                      metadata |-> metadata]
    /\ temp_dir' = TempDirAfterExit(temp_dir)
    /\ temp_files' = IF temp_dir' = "exists" THEN temp_files ELSE <<>>
    /\ exit_path' = "success"
    /\ UNCHANGED <<zip_path, archive, file_pos, progressions, metadata, output_file>>

NextZip ==
    \/ /\ zip_pc = "idle"
       /\ \E path \in ZipPaths, arch \in Archives :
             CallProcessChordZip(path, arch)
             /\ UNCHANGED <<analyzeVars, categorizeVars, setsVars, symbolVars>>
    \/ OpenZip /\ UNCHANGED <<analyzeVars, categorizeVars, setsVars, symbolVars>>
    \/ MakeTempDir /\ UNCHANGED <<analyzeVars, categorizeVars, setsVars, symbolVars>>
    \/ ExtractAll /\ UNCHANGED <<analyzeVars, categorizeVars, setsVars, symbolVars>>
    \/ AnalyzeEntry /\ UNCHANGED <<analyzeVars, categorizeVars, setsVars, symbolVars>>
    \/ AnalyzeRaises /\ UNCHANGED <<analyzeVars, categorizeVars, setsVars, symbolVars>>
    \/ \E write_ok \in BOOLEAN :
          WriteOutput(write_ok) /\ UNCHANGED <<analyzeVars, categorizeVars, setsVars, symbolVars>>
    \/ ReturnSuccess /\ UNCHANGED <<analyzeVars, categorizeVars, setsVars, symbolVars>>

-----------------------------------------------------------------------------
(* ChordProcessor._is_chord_symbol *)

\* line 178
chord_roots == {"C", "D", "E", "F", "G", "A", "B"}

\* The tokens explored, each the list of its characters: every string of at
\* most MaxTokenLen characters of Chars, and some longer words.
Chars == chord_roots \cup {"H", "b", "#", "x", "m"}
Words ==
    { <<"H", "e", "l", "l", "o">>,
      <<"D", "a", "t", "a">>,
      <<"G", "m", "a", "j", "7">>,
      <<"#", "F", "d", "i", "m">>,
      <<"b", "a", "s", "s">>,
      <<"c", "h", "o", "r", "d">> }
Tokens == UNION {[1..n -> Chars] : n \in 0..MaxTokenLen} \cup Words

is_chord_symbol_long_accidental(t) ==
    IF t = <<>> \/ Len(t) < 1 THEN FALSE
    ELSE IF t[1] \in chord_roots THEN TRUE
    ELSE IF Len(t) > 2 /\ t[1] \in {"b", "#"} /\ t[2] \in chord_roots THEN TRUE
    ELSE FALSE

\* lines 175-192
is_chord_symbol(t) ==
    IF t = <<>> \/ Len(t) < 1 THEN FALSE
    ELSE IF t[1] \in chord_roots THEN TRUE
    ELSE IF Len(t) > 1 /\ t[1] \in {"b", "#"} /\ t[2] \in chord_roots THEN TRUE
    ELSE FALSE

InitSymbol ==
    /\ symbol_pc = "ready"
    /\ text = <<>>
    /\ is_chord = FALSE

\* lines 175-192: one call
IsChordSymbol(t) ==
    /\ symbol_pc = "ready"
    /\ symbol_pc' = "done"
    /\ text' = t
    /\ is_chord' = is_chord_symbol(t)

NextSymbol ==
    /\ symbol_pc = "ready"
    /\ \E t \in Tokens :
          IsChordSymbol(t)
             /\ UNCHANGED <<analyzeVars, categorizeVars, setsVars, zipVars>>

-----------------------------------------------------------------------------
(* Specifications: one per tool, from the same initial state *)

Init == InitAnalyze /\ InitCategorize /\ InitSets /\ InitZip /\ InitSymbol

SpecAnalyze == Init /\ [][NextAnalyze]_vars

SpecCategorize == Init /\ [][NextCategorize]_vars

SpecSets == Init /\ [][NextSets]_vars

SpecZip == Init /\ [][NextZip]_vars

SpecSymbol == Init /\ [][NextSymbol]_vars

-----------------------------------------------------------------------------
(* Properties of categorize_chord_set *)

ArgTempo == categorize_arg.estimated_tempo
ArgChords == categorize_arg.chord_count

\* C4: categorize_chord_set maps (estimated_tempo, chord_count) to the label
\* "<tempo-bucket>/<chord-bucket>": tempo < 80 slow-progressions, tempo > 140
\* fast-progressions, else medium-progressions; chord_count > 8 complex, 5..8
\* standard, else simple; with the three examples of the spec; and the label
\* is always one of the nine category directories process_chord_sets makes.
C4_CategoryBuckets ==
    categorize_pc = "done" =>
      /\ \E i \in 1..Len(categories) : categories[i] = category
      /\ DOMAIN categorize_arg = {"estimated_tempo", "chord_count"} =>
           /\ Len(category) = 3
           /\ category[2] = "/"
           /\ category[1] = "slow-progressions" <=> ArgTempo < 80
           /\ category[1] = "fast-progressions" <=> ArgTempo > 140
           /\ category[1] = "medium-progressions" <=> (ArgTempo >= 80 /\ ArgTempo <= 140)
           /\ category[3] = "complex" <=> ArgChords > 8
           /\ category[3] = "standard" <=> ArgChords \in 5..8
           /\ category[3] = "simple" <=> ArgChords <= 4
           /\ (ArgTempo = 79 /\ ArgChords = 9) =>
                 category = <<"slow-progressions", "/", "complex">>
           /\ (ArgTempo = 80 /\ ArgChords = 4) =>
                 category = <<"medium-progressions", "/", "simple">>
           /\ (ArgTempo = 141 /\ ArgChords = 5) =>
                 category = <<"fast-progressions", "/", "standard">>

\* C4 witness: the call on tempo 140 and 8 chords, both at their boundary
C4_Witness ==
    /\ categorize_pc = "done"
    /\ categorize_arg = [estimated_tempo |-> 140, chord_count |-> 8]
    /\ category = <<"medium-progressions", "/", "standard">>

-----------------------------------------------------------------------------
(* Properties of process_chord_sets and the listing query *)

Unfiltered == query.category = <<>> /\ query.tempo_range = <<>>

\* C5: once a run has written the catalog, get_chord_sets_by_category with
\* no category and no tempo range returns the chord_sets list the most recent
\* completed run returned: the same records in the same order, and nothing
\* of the file that run replaced.
C5_RoundTrip ==
    (last_op \in {"query", "list"} /\ catalog_file # NoFile /\ Unfiltered) =>
        chord_sets = returned_catalog.chord_sets

\* C5 witness: an unfiltered query returns the single record of a run that
\* replaced a catalog of two records.
C5_Witness ==
    /\ last_op = "query"
    /\ Unfiltered
    /\ replaced_len = 2
    /\ Len(chord_sets) = 1
    /\ chord_sets[1].analysis.estimated_tempo = 141

RecordTempo(cs) == cs.analysis.estimated_tempo

\* C6: --list with --tempo-min N --tempo-max M keeps exactly the catalog
\* records with N <= estimated_tempo <= M, in catalog order, for all
\* integers N and M.
C6_TempoRangeInclusive ==
    (/\ last_op = "list"
     /\ catalog_file # NoFile
     /\ query.category = <<>>
     /\ query.tempo_min # <<>>
     /\ query.tempo_max # <<>>) =>
        chord_sets =
            SelectSeq(returned_catalog.chord_sets,
                      LAMBDA cs : /\ query.tempo_min[1] <= RecordTempo(cs)
                                  /\ RecordTempo(cs) <= query.tempo_max[1])

RunEnded == sets_pc = "idle" /\ last_op \in {"process", "process_raised"}

\* the records a list of chord set infos holds for the file named `name`
RecordsOf(list, name) ==
    {i \in 1..Len(list) : list[i].original_path = name}

\* C7: when a run ends, the catalog has been persisted by it; every file
\* that failed is in no list of the persisted catalog; every other file the
\* run found has been copied to <category>/<filename> and has its record in
\* chord_sets and in its category's list.
C7_FailureIsPerFile ==
    RunEnded =>
      /\ catalog_file # NoFile
      /\ catalog_file = JsonDump(catalog)
      /\ Member(catalog_file, "total_files") = Len(midi_files)
      /\ LET saved == JsonLoad(catalog_file)
         IN  \A i \in 1..Len(midi_files) :
               LET name == FileNames[i]
               IN  IF i \in failed
                   THEN /\ RecordsOf(saved.chord_sets, name) = {}
                        /\ \A c \in 1..Len(saved.categories) :
                              RecordsOf(saved.categories[c][2], name) = {}
                   ELSE /\ Cardinality(RecordsOf(saved.chord_sets, name)) = 1
                        /\ \E k \in 1..Len(saved.chord_sets) :
                              LET cs == saved.chord_sets[k]
                              IN  /\ cs.original_path = name
                                  /\ cs.category = categorize_chord_set(cs.analysis)
                                  /\ cs.storage_path = [dir |-> cs.category, name |-> name]
                                  /\ \E j \in 1..Len(copied) :
                                        copied[j] = [src |-> name, dst |-> cs.storage_path]
                                  /\ \E c \in 1..Len(saved.categories) :
                                        /\ saved.categories[c][1] = cs.category
                                        /\ RecordsOf(saved.categories[c][2], name) # {}

\* The same statement for the runs in which no copy failed (it holds there).
C7_HoldsWhenNoCopyFails ==
    (RunEnded /\ last_op = "process") => C7_FailureIsPerFile

-----------------------------------------------------------------------------
(* Properties of process_chord_zip and _analyze_chord_files *)

\* the format the claim gives a file extension, "none" for any other
ClaimedFormat(suffix) ==
    CASE suffix \in {".mid", ".midi", ".MID", ".MIDI"} -> "MIDI"
      [] suffix \in {".txt", ".chord"} -> "Text"
      [] suffix = ".json" -> "JSON"
      [] OTHER -> "none"

\* the entries walked so far, and those of them that yield a record
Walked == 1..(file_pos - 1)
Yielding ==
    SelectSeq([i \in Walked |-> i],
              LAMBDA i : /\ archive.files[i].is_file
                         /\ ClaimedFormat(archive.files[i].suffix) # "none"
                         /\ archive.files[i].ok)

\* C8: the progression list holds exactly one record per regular file of a
\* known extension whose processor succeeded, in walk order, and formats one
\* matching entry per record in the same order; other extensions, failed
\* processors and directories add nothing; file_count counts every regular
\* file.
C8_OneRecordPerReadableFile ==
    zip_pc \in {"analyzing", "written"} =>
      /\ Len(progressions) = Len(Yielding)
      /\ Len(metadata.formats) = Len(Yielding)
      /\ \A k \in 1..Len(Yielding) :
           LET entry == archive.files[Yielding[k]]
           IN  /\ progressions[k].filename = <<Yielding[k], entry.suffix>>
               /\ progressions[k].type = ClaimedFormat(entry.suffix)
               /\ metadata.formats[k] = ClaimedFormat(entry.suffix)
      /\ metadata.file_count = Cardinality({i \in Walked : archive.files[i].is_file})

\* C8 witness: one .mid, one .txt and one .png give two records, MIDI and Text
C8_Witness ==
    /\ zip_pc = "written"
    /\ Len(archive.files) = 3
    /\ archive.files[1] = [suffix |-> ".mid", is_file |-> TRUE, ok |-> TRUE]
    /\ archive.files[2] = [suffix |-> ".txt", is_file |-> TRUE, ok |-> TRUE]
    /\ archive.files[3].suffix = ".png"
    /\ Len(progressions) = 2
    /\ metadata.formats = <<"MIDI", "Text">>
    /\ metadata.file_count = 3

\* the stem the claim gives each archive name
ClaimedStem ==
    CASE zip_path = <<"jazz", ".zip">> -> <<"jazz">>
      [] zip_path = <<"my", ".set", ".zip">> -> <<"my", ".set">>
      [] zip_path = <<"archive">> -> <<"archive">>

\* C9: process_chord_zip never lets a failure out; when a step failed it
\* returns success = false with an error string, and otherwise success =
\* true with the archive's stem, the path <stem>_processed.json and the
\* length of the progression list written to that file.
C9_FailureIsReturned ==
    /\ zip_pc # "propagated"
    /\ zip_pc = "returned" =>
         IF exit_path = "success"
         THEN /\ archive.is_zip /\ archive.extract_ok
              /\ zip_result.success
              /\ zip_result.chord_set_name = ClaimedStem
              /\ zip_result.output_path.name = Append(ClaimedStem, "_processed.json")
              /\ output_file # NoOutput
              /\ output_file.path = zip_result.output_path
              /\ zip_result.chord_count = Len(Member(output_file.text, "progressions"))
         ELSE /\ exit_path \in {"open", "extract", "analysis", "write"}
              /\ DOMAIN zip_result = {"success", "error"}
              /\ ~zip_result.success
              /\ zip_result.error \in {"BadZipFile", "FileNotFoundError", "OSError"}
    /\ (zip_pc = "returned" /\ ~(archive.is_zip /\ archive.extract_ok)) =>
         ~zip_result.success

\* C9 witness: a successful call on "my.set.zip" that wrote two progressions
C9_Witness ==
    /\ zip_pc = "returned"
    /\ zip_path = <<"my", ".set", ".zip">>
    /\ zip_result.success
    /\ zip_result.chord_count = 2
    /\ Len(archive.files) = 3

\* C10: once process_chord_zip has returned, the extraction directory does
\* not exist: it was removed on every path that created it (success, failed
\* extraction, failed analysis, failed write) and never created otherwise.
C10_TempDirGone ==
    zip_pc = "returned" =>
      /\ temp_dir # "exists"
      /\ temp_files = <<>>
      /\ temp_dir = "removed" <=> exit_path \in {"success", "extract", "analysis", "write"}
      /\ temp_dir = "none" <=> exit_path = "open"

\* C10 witness: the call returned after the write of the output failed, the
\* directory having held extracted files
C10_Witness ==
    /\ zip_pc = "returned"
    /\ exit_path = "write"
    /\ ~zip_result.success
    /\ Len(archive.files) >= 2
    /\ temp_dir = "removed"

\* the other exit paths of C10 are reached too
C10_ReachedAfterSuccess == zip_pc = "returned" /\ exit_path = "success"
C10_ReachedAfterExtract == zip_pc = "returned" /\ exit_path = "extract"
C10_ReachedAfterAnalysis == zip_pc = "returned" /\ exit_path = "analysis"

-----------------------------------------------------------------------------
(* Properties of _is_chord_symbol *)

NaturalLetters == {"C", "D", "E", "F", "G", "A", "B"}

\* C11: a token is accepted if and only if its first character is one of
\* C, D, E, F, G, A, B, or it has at least two characters, the first 'b' or
\* '#' and the second one of those letters; "C", "Am", "bB", "#F" are
\* accepted, "x", "Hello" and the empty string are rejected, and a word
\* that starts with one of the seven letters is accepted.
C11_ChordSymbolRule ==
    symbol_pc = "done" =>
      /\ is_chord <=>
           \/ Len(text) >= 1 /\ text[1] \in NaturalLetters
           \/ /\ Len(text) >= 2
              /\ text[1] \in {"b", "#"}
              /\ text[2] \in NaturalLetters
      /\ text \in {<<"C">>, <<"A", "m">>, <<"b", "B">>, <<"#", "F">>} => is_chord
      /\ text \in {<<"x">>, <<"H", "e", "l", "l", "o">>, <<>>} => ~is_chord
      /\ text = <<"D", "a", "t", "a">> => is_chord

\* C11 witness: the two-character token "bB" is accepted
C11_Witness ==
    /\ symbol_pc = "done"
    /\ text = <<"b", "B">>
    /\ is_chord

\* the rejected examples of C11 are reached too
C11_ReachedHello ==
    symbol_pc = "done" /\ text = <<"H", "e", "l", "l", "o">> /\ ~is_chord
C11_ReachedEmpty == symbol_pc = "done" /\ text = <<>> /\ ~is_chord

-----------------------------------------------------------------------------
(* Properties of analyze_chord_midi *)

ChordProgression == analysis.chord_progression

\* C1: a Chord Event is appended at a message if and only if the message is
\* a note-on with velocity > 0 and the active set, after inserting its pitch,
\* has at least 3 pitches; exactly one event is appended then, and no step
\* that reads no message, a note-off or a zero-velocity note-on appends one.
C1_EmitIffThreeOnNoteOn ==
    [][ LET before == analysis.chord_progression
            after  == analysis'.chord_progression
            m      == msg'
        IN  IF msgs_read' = msgs_read + 1
            THEN /\ (after # before) <=>
                       (/\ m.type = "note_on"
                        /\ m.velocity > 0
                        /\ Cardinality(active_notes \cup {m.note}) >= 3)
                 /\ after # before =>
                       /\ Len(after) = Len(before) + 1
                       /\ SubSeq(after, 1, Len(before)) = before
            ELSE after = before ]_vars

\* C1 witness: a note-on for a pitch that was already active re-emitted the
\* same chord.
C1_Witness ==
    /\ track_open
    /\ msg.type = "note_on" /\ msg.velocity > 0
    /\ Len(ChordProgression) >= 2
    /\ ChordProgression[Len(ChordProgression)].notes
         = ChordProgression[Len(ChordProgression) - 1].notes
    /\ ChordProgression[Len(ChordProgression)].track
         = ChordProgression[Len(ChordProgression) - 1].track

\* C2: after any sequence of messages of a track, the active set is the set
\* of pitches whose last note event in the track is a note-on with positive
\* velocity; it is empty when the track starts.
C2_ActiveIsTrailingNoteOn ==
    active_notes = {p \in Pitches : last_note[p] = "on"}

\* C2 witness: a zero-velocity note-on for a pitch that is not active was
\* read while other pitches stay active.
C2_Witness ==
    /\ track_open
    /\ msg.type = "note_on" /\ msg.velocity = 0
    /\ msg.note \notin active_notes
    /\ Cardinality(active_notes) >= 2
    /\ track_idx = 1

\* C3: every Chord Event has at least 3 notes, strictly ascending, and a
\* track index of a track read so far; the event emitted by the message
\* just read lists exactly the active set, at the sum of the track's delta
\* times so far, with the current track index; chord_count of the returned
\* record is the length of its chord_progression.
C3_ChordEventShape ==
    /\ \A i \in 1..Len(ChordProgression) :
         LET e == ChordProgression[i]
         IN  /\ Len(e.notes) >= 3
             /\ \A k \in 1..(Len(e.notes) - 1) : e.notes[k] < e.notes[k + 1]
             /\ e.track \in 0..track_idx
             /\ e.track < num_tracks
    /\ (track_open /\ msg.type = "note_on" /\ msg.velocity > 0
          /\ Cardinality(active_notes) >= 3) =>
         /\ ChordProgression # <<>>
         /\ LET e == ChordProgression[Len(ChordProgression)]
            IN  /\ {e.notes[k] : k \in 1..Len(e.notes)} = active_notes
                /\ Len(e.notes) = Cardinality(active_notes)
                /\ e.time = elapsed
                /\ e.track = track_idx
    /\ analyze_pc = "done" =>
         /\ result.chord_progression = ChordProgression
         /\ result.chord_count = Len(result.chord_progression)

\* C3 witness: a returned record of two events of the second track, the last
\* one of four notes at a non-zero time.
C3_Witness ==
    /\ analyze_pc = "done"
    /\ result.chord_count >= 2
    /\ result.chord_progression[result.chord_count].track = 1
    /\ result.chord_progression[result.chord_count].time > 0
    /\ Len(result.chord_progression[result.chord_count].notes) = 4

====
